---- MODULE Spec2Model ----
(***************************************************************************)
(* Model of the VRP backend's solving engine: the controller's fallback    *)
(* chain (VRPController.solve_vrp), the request validation gate, and the   *)
(* three strategies (SimpleVRPService, GeminiVRPService, VRPService).      *)
(*                                                                         *)
(* Units.  All points lie on the depot's meridian; a coordinate's lat is   *)
(* its arc length from the equator in metres, so the haversine distance of *)
(* two points is the absolute difference of their lat.  Distances are in   *)
(* metres, costs in thousandths of a currency unit, clock values in        *)
(* minutes (greedy) or seconds (OR-Tools), durations of a route in whole   *)
(* seconds.  A Python number is a record [v, float]: v its value and float *)
(* whether it is a Python float (a JSON number written with a fraction).   *)
(* The quotients utilization_rate, efficiency and the averages built from  *)
(* them are not part of the model.                                         *)
(***************************************************************************)
EXTENDS Integers, Sequences, FiniteSets, TLC

VARIABLES
    request_data,   \* the data handed to VRPController.solve_vrp
    request,        \* the VRPRequest converted from it (vrp_request)
    pc,             \* where solve_vrp stands
    result,         \* solve_vrp's local result
    response,       \* the dictionary solve_vrp returns
    solving_stats,  \* VRPController.solving_stats
    invoked,        \* history: the strategy calls of this solve, in order
    direct,         \* history: a strategy called on its own
    workers,        \* the threads serving requests on one controller
    search,         \* one run of routing.SolveWithParameters
    probe,          \* a helper function applied to an argument
    answered        \* history: the answers of the solves before this one

vars == <<request_data, request, pc, result, response, solving_stats, invoked, direct,
          workers, search, probe, answered>>

(***************************************************************************)
(* Bounds of the model and the input domains.                              *)
(***************************************************************************)
MaxCustomers == 3
MaxVehicles == 2

\* One position on a whole kilometre, one off the 10 m grid that round(x, 2)
\* of a distance in kilometres keeps.
Positions == {1000, 3004}
Demands == {1, 3}

\* Python's None, and the solution-shaped values compared with it.
None == [status |-> "None"]

\* An exception leaving a function body.
Raised == [status |-> "raised"]

\* try: ... except Exception: return None, the frame of each strategy's
\* solve_vrp.
ExceptReraise(outcome) == outcome

ExceptReturnNone(outcome) == IF outcome = Raised THEN None ELSE outcome

PyInt(n) == [v |-> n, float |-> FALSE]
PyFloat(n) == [v |-> n, float |-> TRUE]

\* serviceTime values of a request: JSON 1 (int) or JSON 1.0 (float).
ServiceTimes == {PyInt(1), PyFloat(1)}

Min(a, b) == IF a < b THEN a ELSE b
Max(a, b) == IF a > b THEN a ELSE b
Abs(a) == IF a < 0 THEN 0 - a ELSE a

RECURSIVE SumSeq(_)
SumSeq(s) == IF s = <<>> THEN 0 ELSE Head(s) + SumSeq(Tail(s))

Take(s, k) == SubSeq(s, 1, Min(k, Len(s)))
Drop(s, k) == SubSeq(s, Min(k, Len(s)) + 1, Len(s))

SeqsUpTo(S, n) == UNION {[1..k -> S] : k \in 0..n}

(***************************************************************************)
(* models/vrp_models.py                                                    *)
(***************************************************************************)
Coordinate(x) == [lat |-> x, lng |-> 0]

Depot == Coordinate(0)

\* A string is the sequence of its characters.
TimeWindow(start, end) == [start |-> start, end |-> end]

Customer(i, x, dem, st) ==
    [id |-> <<"C", i>>, name |-> <<"Musteri", i>>, coordinate |-> Coordinate(x),
     demand |-> dem, time_window |-> None, service_time |-> st]

Vehicle(j, cap) ==
    [id |-> <<"ID", j>>, name |-> <<"Arac", j>>, type |-> <<"type", j>>,
     capacity |-> cap, cost_per_km |-> 2]

\* max_solving_time and use_time_windows at the values _convert_to_vrp_request
\* gives them when the request body does not name them.
VRPRequest(cs, vs, cap) ==
    [depot |-> Depot, customers |-> cs, vehicles |-> vs,
     max_solving_time |-> 300, use_time_windows |-> FALSE,
     use_capacity_constraints |-> cap]

RouteStop(type, id, name, coordinate, demand, load, arrival, departure, service) ==
    [type |-> type, id |-> id, name |-> name, coordinate |-> coordinate,
     demand |-> demand, load |-> load, arrival_time |-> arrival,
     departure_time |-> departure, service_time |-> service]

DepotStop(load, t) ==
    RouteStop("depot", <<"DEPOT">>, <<"Depo">>, Depot, 0, load, t, t, PyInt(0))

CustomerStops(route) == SelectSeq(route.stops, LAMBDA s : s.type = "customer")

\* The requests of the model: customers at whole positions with unique ids
\* and names, all of one serviceTime; a fleet of vehicles with unique ids
\* and names whose capacities are 2, 3, 4, ... in the order of the request.
CustomerLists ==
    {[i \in 1..Len(p) |-> Customer(i, p[i][1], p[i][2], st)] :
        p \in SeqsUpTo(Positions \X Demands, MaxCustomers), st \in ServiceTimes}

VehicleLists ==
    {[j \in 1..k |-> Vehicle(j, j + 1)] : k \in 0..MaxVehicles}

Requests ==
    {VRPRequest(cs, vs, cap) : cs \in CustomerLists, vs \in VehicleLists, cap \in BOOLEAN}

\* Requests of one customer and one vehicle that break one validation rule
\* each: a solving time of 0 or above 3600, a demand of 0, a time window
\* that ends when it starts.
RejectedRequests ==
    LET one == VRPRequest(<<Customer(1, 1000, 1, PyInt(1))>>, <<Vehicle(1, 2)>>, TRUE)
        nine == <<"0", "9", ":", "0", "0">>
    IN {[one EXCEPT !.max_solving_time = 0],
        [one EXCEPT !.max_solving_time = 3601],
        [one EXCEPT !.customers[1].demand = 0],
        [one EXCEPT !.customers[1].time_window = TimeWindow(nine, nine)]}

(***************************************************************************)
(* services/simple_vrp_service.py                                          *)
(***************************************************************************)
\* Haversine distance of two points of the depot's meridian, in metres.
_calculate_distance(coord1, coord2) == Abs(coord1.lat - coord2.lat)

\* f"{hours:02d}:{mins:02d}" raises ValueError for a float.
FormatRaises(minutes) == minutes.float

\* The string "HH:MM" as the pair of its two numbers.
_minutes_to_time(minutes) == <<minutes.v \div 60, minutes.v % 60>>

\* int(distance_km * 60 / 50), distance in metres.
TravelMinutes(distance) == (distance * 60) \div (50 * 1000)

\* The for loop of lines 111-115 with `distance <= min_distance`: the last
\* customer at minimum distance.
NearestIndexLastFound(location, remaining) ==
    CHOOSE i \in 1..Len(remaining) :
        /\ \A k \in 1..Len(remaining) :
              _calculate_distance(location, remaining[i].coordinate)
                 <= _calculate_distance(location, remaining[k].coordinate)
        /\ \A k \in (i + 1)..Len(remaining) :
              _calculate_distance(location, remaining[k].coordinate)
                 > _calculate_distance(location, remaining[i].coordinate)

\* The for loop of lines 111-115: the first customer at minimum distance.
NearestIndex(location, remaining) ==
    CHOOSE i \in 1..Len(remaining) :
        /\ \A k \in 1..Len(remaining) :
              _calculate_distance(location, remaining[i].coordinate)
                 <= _calculate_distance(location, remaining[k].coordinate)
        /\ \A k \in 1..(i - 1) :
              _calculate_distance(location, remaining[k].coordinate)
                 > _calculate_distance(location, remaining[i].coordinate)

\* list.remove: drops the first element equal to x.
RemoveFirst(s, x) ==
    LET i == CHOOSE k \in 1..Len(s) : s[k] = x /\ \A m \in 1..(k - 1) : s[m] # x
    IN SubSeq(s, 1, i - 1) \o SubSeq(s, i + 1, Len(s))

\* The while loop of lines 106-139.  acc carries the route under
\* construction, the clock and the current location; raised records an
\* exception leaving the loop.
RECURSIVE SimpleWalk(_, _)
SimpleWalk(acc, remaining) ==
    IF acc.raised \/ remaining = <<>> THEN acc
    ELSE LET nearest_customer == remaining[NearestIndex(acc.current_location, remaining)]
             min_distance == _calculate_distance(acc.current_location,
                                                 nearest_customer.coordinate)
             departure == [v |-> acc.current_time.v + nearest_customer.service_time.v,
                           float |-> acc.current_time.float
                                       \/ nearest_customer.service_time.float]
         IN IF FormatRaises(acc.current_time) \/ FormatRaises(departure)
            THEN [acc EXCEPT !.raised = TRUE]
            ELSE SimpleWalk(
                   [stops |-> Append(acc.stops,
                        RouteStop("customer", nearest_customer.id, nearest_customer.name,
                                  nearest_customer.coordinate, nearest_customer.demand,
                                  acc.total_load + nearest_customer.demand,
                                  _minutes_to_time(acc.current_time),
                                  _minutes_to_time(departure),
                                  nearest_customer.service_time)),
                    total_distance |-> acc.total_distance + min_distance,
                    total_load |-> acc.total_load + nearest_customer.demand,
                    current_time |-> [departure EXCEPT
                                         !.v = @ + TravelMinutes(min_distance)],
                    current_location |-> nearest_customer.coordinate,
                    raised |-> FALSE],
                   RemoveFirst(remaining, nearest_customer))

\* _create_simple_route; vehicle_id is the 1-based position of the vehicle,
\* the number printed in the label f'V{vehicle_id + 1:03d}'.
_create_simple_route(vehicle_id, vehicle, customers, depot) ==
    LET start == [stops |-> <<DepotStop(0, <<8, 0>>)>>,
                  total_distance |-> 0, total_load |-> 0,
                  current_time |-> PyInt(8 * 60), current_location |-> depot,
                  raised |-> FALSE]
        walk == SimpleWalk(start, customers)
        return_distance == _calculate_distance(walk.current_location, depot)
        total_distance == walk.total_distance + return_distance
        end_time == [walk.current_time EXCEPT !.v = @ + TravelMinutes(return_distance)]
    IN IF walk.raised \/ FormatRaises(end_time) THEN [raised |-> TRUE]
       ELSE [raised |-> FALSE,
             vehicle_id |-> <<"V", vehicle_id>>,
             vehicle_name |-> vehicle.name,
             vehicle_type |-> vehicle.type,
             capacity |-> vehicle.capacity,
             stops |-> Append(walk.stops,
                              DepotStop(walk.total_load, _minutes_to_time(end_time))),
             total_distance |-> total_distance,
             total_cost |-> total_distance * vehicle.cost_per_km,
             total_load |-> walk.total_load,
             total_time |-> (total_distance * 3600) \div (50 * 1000)]

\* Lines 29-35: the customers handed to the vehicle at position vehicle_id
\* and the customers left for the vehicles after it.
VehicleCustomersNoLeftover(req, vehicle_id, remaining) ==
    LET customers_per_vehicle == Max(1, Len(req.customers) \div Len(req.vehicles))
    IN [vehicle_customers |-> Take(remaining, customers_per_vehicle),
        remaining_customers |-> Drop(remaining, customers_per_vehicle)]

\* Line 25 without max(1, ...).
VehicleCustomersFloorOnly(req, vehicle_id, remaining) ==
    LET customers_per_vehicle == Len(req.customers) \div Len(req.vehicles)
        first == Take(remaining, customers_per_vehicle)
        rest == Drop(remaining, customers_per_vehicle)
    IN IF vehicle_id = Len(req.vehicles)
       THEN [vehicle_customers |-> first \o rest, remaining_customers |-> <<>>]
       ELSE [vehicle_customers |-> first, remaining_customers |-> rest]

VehicleCustomers(req, vehicle_id, remaining) ==
    LET customers_per_vehicle == Max(1, Len(req.customers) \div Len(req.vehicles))
        first == Take(remaining, customers_per_vehicle)
        rest == Drop(remaining, customers_per_vehicle)
    IN IF vehicle_id = Len(req.vehicles)
       THEN [vehicle_customers |-> first \o rest, remaining_customers |-> <<>>]
       ELSE [vehicle_customers |-> first, remaining_customers |-> rest]

\* A route without the bookkeeping field of the model.
AsRoute(r) == [f \in (DOMAIN r) \ {"raised"} |-> r[f]]

\* The for loop of lines 27-39.
RECURSIVE SimpleRoutes(_, _, _, _)
SimpleRoutes(req, vehicle_id, remaining, routes) ==
    IF vehicle_id > Len(req.vehicles) THEN [raised |-> FALSE, routes |-> routes]
    ELSE LET part == VehicleCustomers(req, vehicle_id, remaining)
         IN IF part.vehicle_customers = <<>>
            THEN SimpleRoutes(req, vehicle_id + 1, part.remaining_customers, routes)
            ELSE LET route == _create_simple_route(vehicle_id, req.vehicles[vehicle_id],
                                                   part.vehicle_customers, req.depot)
                 IN IF route.raised THEN [raised |-> TRUE, routes |-> <<>>]
                    ELSE SimpleRoutes(req, vehicle_id + 1, part.remaining_customers,
                                      Append(routes, AsRoute(route)))

\* round(x, 2) of a quantity held in thousandths.
Round2(x) == ((x + 5) \div 10) * 10

\* round(hours, 2) of a duration held in seconds: 0.01 h is 36 s.
Round2Hours(s) == ((s + 18) \div 36) * 36

SumOver(routes, field) == SumSeq([i \in 1..Len(routes) |-> routes[i][field]])

CountCustomerStops(routes) ==
    SumSeq([i \in 1..Len(routes) |-> Len(CustomerStops(routes[i]))])

VRPSolution(routes, total_distance, total_cost, total_time, vehicles_used, customers_served, algorithm) ==
    [routes |-> routes, total_distance |-> total_distance, total_cost |-> total_cost,
     total_time |-> total_time, vehicles_used |-> vehicles_used,
     customers_served |-> customers_served, status |-> "success",
     algorithm |-> algorithm]

\* The body of SimpleVRPService.solve_vrp: it raises on a division by zero
\* vehicles at line 25 and on a ValueError of the clock formatting.
SimpleBody(req) ==
    IF Len(req.vehicles) = 0 THEN Raised
    ELSE LET built == SimpleRoutes(req, 1, req.customers, <<>>)
             routes == built.routes
         IN IF built.raised THEN Raised
            ELSE VRPSolution(routes,
                             Round2(SumOver(routes, "total_distance")),
                             Round2(SumOver(routes, "total_cost")),
                             Round2Hours(SumOver(routes, "total_time")),
                             Len(routes), CountCustomerStops(routes),
                             "Simple Multi-Vehicle")

\* SimpleVRPService.solve_vrp.
SimpleVRPService_solve_vrp(req) == ExceptReturnNone(SimpleBody(req))

\* x.copy() and x[a:b] make a new list: the source list as it is once the
\* new list has been changed to `after`.
CopyShared(source, after) == after

Copy(source, after) == source

\* The request as SimpleVRPService.solve_vrp leaves it.  The only removals
\* are those of line 139, which empty the list of line 103, a copy of the
\* argument; the argument is a slice (line 29) of the copy of
\* request.customers made at line 22.  No field of a customer or of a
\* vehicle is assigned to.
RequestAfterSimple(req) ==
    IF Len(req.vehicles) = 0 THEN req
    ELSE LET vehicle_customers == Copy(req.customers, <<>>)
             remaining_customers == Copy(req.customers, vehicle_customers)
         IN [req EXCEPT !.customers = Copy(@, remaining_customers)]

(***************************************************************************)
(* services/gemini_service.py                                              *)
(***************************************************************************)
\* A JSON value of the reply where a number is expected.
JNum(n) == [num |-> TRUE, v |-> n]
JStr == [num |-> FALSE, v |-> 0]

\* The collaborator's answer: a transport error, text that is no JSON, or a
\* JSON object.  The object's top-level numbers are the collaborator's own
\* counts of what it sent.
ReplyError == [kind |-> "error"]
ReplyText == [kind |-> "text"]
ReplyJson(routes) ==
    [kind |-> "json", routes |-> routes,
     total_distance |-> SumSeq([i \in 1..Len(routes) |-> routes[i].total_distance]),
     total_cost |-> SumSeq([i \in 1..Len(routes) |-> routes[i].total_cost]),
     vehicles_used |-> Len(routes),
     customers_served |->
        SumSeq([i \in 1..Len(routes) |->
                  Len(SelectSeq(routes[i].stops, LAMBDA d : d.type = "customer"))])]

Unknown == <<"?">>

ReplyDepot == [type |-> "depot", name |-> <<"Depo">>]

\* The stop lists of a returned route: at most two customer stops, named
\* after the request's first customer or after nobody, with or without the
\* depot stops around them.
ReplyStopLists(req) ==
    LET names == {req.customers[i].name : i \in {1} \cap DOMAIN req.customers}
                    \cup {Unknown}
        bodies == {[k \in 1..Len(b) |-> [type |-> "customer", name |-> b[k]]] :
                      b \in SeqsUpTo(names, 2)}
    IN bodies \cup {<<ReplyDepot>> \o b \o <<ReplyDepot>> : b \in bodies}

\* The vehicle a returned route names: the first vehicle by id and name, the
\* first by id with the name of the last, or an unknown one.
ReplyVehicleRefs(req) ==
    {[vehicle_id |-> req.vehicles[j].id, vehicle_name |-> req.vehicles[k].name] :
        j \in {1} \cap DOMAIN req.vehicles, k \in {1, Len(req.vehicles)} \cap DOMAIN req.vehicles}
      \cup {[vehicle_id |-> Unknown, vehicle_name |-> Unknown]}

ReplyRoutes(req) ==
    {[vehicle_id |-> ref.vehicle_id, vehicle_name |-> ref.vehicle_name,
      stops |-> stops, total_distance |-> 5000, total_cost |-> 10000,
      total_load |-> load] :
        ref \in ReplyVehicleRefs(req), stops \in ReplyStopLists(req),
        load \in {JNum(1), JStr}}

\* A reply of two routes: a route for the first vehicle serving the first
\* customer, and the same route with a total_load that is no number.
ReplyTwoRoutes(req) ==
    {ReplyJson(<<r, [r EXCEPT !.total_load = JStr]>>) :
        r \in {x \in ReplyRoutes(req) :
                  /\ x.total_load = JNum(1)
                  /\ x.vehicle_id # Unknown
                  /\ x.vehicle_name = req.vehicles[1].name
                  /\ Len(x.stops) = 3
                  /\ x.stops[2].name # Unknown}}

Replies(req) ==
    {ReplyError, ReplyText, ReplyJson(<<>>)}
        \cup {ReplyJson(<<r>>) : r \in ReplyRoutes(req)}
        \cup ReplyTwoRoutes(req)

\* _create_stop_from_data: a RouteStop, or None for a customer stop whose
\* name matches no customer of the request.  The returned stops carry no
\* demand key, so load defaults to the customer's demand.
_create_stop_from_data(stop_data, req) ==
    IF stop_data.type = "depot" THEN DepotStop(0, <<8, 0>>)
    ELSE LET found == SelectSeq(req.customers, LAMBDA c : c.name = stop_data.name)
         IN IF found = <<>> THEN None
            ELSE LET customer == Head(found)
                 IN RouteStop("customer", customer.id, customer.name,
                              customer.coordinate, customer.demand, customer.demand,
                              <<9, 0>>, <<9, 15>>, customer.service_time)

\* Lines 229-237: the first vehicle matching by name or by id, else the
\* first vehicle of the request.
MatchVehicle(route_data, req) ==
    LET found == SelectSeq(req.vehicles,
                           LAMBDA v : v.name = route_data.vehicle_name
                                        \/ v.id = route_data.vehicle_id)
    IN IF found = <<>> THEN req.vehicles[1] ELSE Head(found)

\* _create_route_from_data: None when the body raises (no vehicle to default
\* to, a total_load that is no number in the divisions of lines 261-264).
_create_route_from_data(route_data, req) ==
    IF req.vehicles = <<>> THEN None
    ELSE LET vehicle == MatchVehicle(route_data, req)
             made == [i \in 1..Len(route_data.stops) |->
                         _create_stop_from_data(route_data.stops[i], req)]
         IN IF ~route_data.total_load.num
                  /\ (vehicle.capacity > 0 \/ route_data.total_distance > 0)
            THEN None
            ELSE [vehicle_id |-> route_data.vehicle_id,
                  vehicle_name |-> route_data.vehicle_name,
                  vehicle_type |-> vehicle.type,
                  capacity |-> vehicle.capacity,
                  stops |-> SelectSeq(made, LAMBDA st : st # None),
                  total_distance |-> route_data.total_distance,
                  total_cost |-> route_data.total_cost,
                  total_load |-> route_data.total_load.v,
                  total_time |-> 0]

\* _parse_gemini_response for a reply that parses as a JSON object.
_parse_gemini_response(solution_data, req) ==
    LET made == [i \in 1..Len(solution_data.routes) |->
                    _create_route_from_data(solution_data.routes[i], req)]
        routes == SelectSeq(made, LAMBDA r : r # None)
    IN VRPSolution(routes, solution_data.total_distance, solution_data.total_cost, 0,
                   solution_data.vehicles_used, solution_data.customers_served,
                   "Gemini AI")

\* GeminiVRPService.solve_vrp: generate_content raises on a transport
\* error; a text json.loads rejects ends in the handler of
\* _parse_gemini_response (lines 218-220), which returns None.
GeminiVRPService_solve_vrp(req, reply) ==
    ExceptReturnNone(IF reply.kind = "error" THEN Raised
                     ELSE IF reply.kind = "text" THEN None
                     ELSE _parse_gemini_response(reply, req))

(***************************************************************************)
(* services/vrp_service.py.  Nodes are numbered as in the source: 0 is the *)
(* depot and i the customer at position i of the request; node k is entry  *)
(* k + 1 of a sequence of the data model.                                  *)
(***************************************************************************)
\* The hours and minutes _seconds_to_time formats.
_seconds_to_time(seconds) == <<seconds.v \div 3600, (seconds.v % 3600) \div 60>>

Digits == <<"0", "1", "2", "3", "4", "5", "6", "7", "8", "9">>

IsDigit(ch) == \E d \in 1..10 : Digits[d] = ch

DigitValue(ch) == (CHOOSE d \in 1..10 : Digits[d] = ch) - 1

\* The decimal digits of a natural number.
RECURSIVE Decimal(_)
Decimal(n) == IF n < 10 THEN <<Digits[n + 1]>>
              ELSE Decimal(n \div 10) \o <<Digits[(n % 10) + 1]>>

\* f"{n:02d}" of a natural number: its digits, padded with a zero to two.
Format02d(n) == IF n < 10 THEN <<"0">> \o Decimal(n) ELSE Decimal(n)

\* f"{hours:02d}:{minutes:02d}", the string _seconds_to_time returns.
ClockText(hm) == Format02d(hm[1]) \o <<":">> \o Format02d(hm[2])

\* time_str.split(':').
RECURSIVE Split(_)
Split(str) ==
    IF str = <<>> THEN <<<<>>>>
    ELSE LET rest == Split(Tail(str))
         IN IF Head(str) = ":" THEN <<<<>>>> \o rest
            ELSE <<<<Head(str)>> \o Head(rest)>> \o Tail(rest)

\* int(part) of a string of digits; IntRaises tells when int() raises.
RECURSIVE ParseInt(_)
ParseInt(part) ==
    IF part = <<>> THEN 0
    ELSE ParseInt(SubSeq(part, 1, Len(part) - 1)) * 10 + DigitValue(part[Len(part)])

IntRaises(part) == part = <<>> \/ \E k \in 1..Len(part) : ~IsDigit(part[k])

\* _time_to_seconds: 0 from the bare except when the string does not split
\* into two integers.
_time_to_seconds_hours(time_str) ==
    LET parts == Split(time_str)
    IN IF Len(parts) # 2 \/ IntRaises(parts[1]) \/ IntRaises(parts[2]) THEN 0
       ELSE ParseInt(parts[1]) * 3600

_time_to_seconds(time_str) ==
    LET parts == Split(time_str)
    IN IF Len(parts) # 2 \/ IntRaises(parts[1]) \/ IntRaises(parts[2]) THEN 0
       ELSE ParseInt(parts[1]) * 3600 + ParseInt(parts[2]) * 60

\* Line 85: the demand of each node, the depot's first.
NodeDemandsDepotLast(req) ==
    [i \in 1..Len(req.customers) |-> req.customers[i].demand] \o <<0>>

NodeDemands(req) ==
    <<0>> \o [i \in 1..Len(req.customers) |-> req.customers[i].demand]

_create_data_model(req) ==
    LET locations == <<req.depot>>
                       \o [i \in 1..Len(req.customers) |-> req.customers[i].coordinate]
        N == Len(locations)
        km1000(i, j) == _calculate_distance(locations[i], locations[j])
    IN [distance_matrix |->
           [i \in 1..N |-> [j \in 1..N |-> IF i = j THEN 0 ELSE km1000(i, j)]],
        time_matrix |->
           [i \in 1..N |-> [j \in 1..N |->
               IF i = j THEN 0 ELSE (km1000(i, j) * 3600) \div (50 * 1000)]],
        time_windows |->
           IF req.use_time_windows
           THEN <<<<0, 86400>>>>
                  \o [i \in 1..Len(req.customers) |->
                        IF req.customers[i].time_window # None
                        THEN <<_time_to_seconds(req.customers[i].time_window.start),
                               _time_to_seconds(req.customers[i].time_window.end)>>
                        ELSE <<0, 86400>>]
           ELSE <<>>,
        num_vehicles |-> Len(req.vehicles),
        depot |-> 0,
        demands |-> NodeDemands(req),
        vehicle_capacities |-> [j \in 1..Len(req.vehicles) |-> req.vehicles[j].capacity],
        service_times |->
           <<PyInt(0)>> \o [i \in 1..Len(req.customers) |->
                               [req.customers[i].service_time EXCEPT !.v = @ * 60]],
        vehicle_fixed_costs |-> [j \in 1..Len(req.vehicles) |-> j - 1]]

RECURSIVE Perms(_)
Perms(S) == IF S = {} THEN {<<>>}
            ELSE UNION {{<<x>> \o p : p \in Perms(S \ {x})} : x \in S}

RECURSIVE Splits(_, _)
Splits(s, v) ==
    IF v = 0 THEN (IF s = <<>> THEN {<<>>} ELSE {})
    ELSE UNION {{<<SubSeq(s, 1, k)>> \o rest :
                    rest \in Splits(SubSeq(s, k + 1, Len(s)), v - 1)} : k \in 0..Len(s)}

\* The assignments of the routing model: every vehicle runs from the depot
\* through a sequence of customer nodes back to the depot, and every
\* customer node is on exactly one vehicle's sequence (the model declares no
\* disjunction, so no node may be dropped).
AssignmentsEveryVehicleUsed(data) ==
    {a \in UNION {Splits(p, data.num_vehicles) : p \in Perms(1..(Len(data.demands) - 1))} :
        \A j \in 1..data.num_vehicles : a[j] # <<>>}

Assignments(data) ==
    UNION {Splits(p, data.num_vehicles) : p \in Perms(1..(Len(data.demands) - 1))}

\* The Capacity dimension of lines 119-131, added whatever the request's
\* use_capacity_constraints: the cumulated demand on a vehicle stays within
\* that vehicle's capacity.
CapacityDimensionDropped(data, req, assignment) == TRUE

CapacityDimension(data, req, assignment) ==
    \A j \in 1..data.num_vehicles :
        SumSeq([k \in 1..Len(assignment[j]) |-> data.demands[assignment[j][k] + 1]])
            <= data.vehicle_capacities[j]

\* time_callback of lines 135-138: travel time plus the service time of the
\* node left.  Nodes are numbered from 0, rows from 1.
TimeTransit(data, from_node, to_node) ==
    data.time_matrix[from_node + 1][to_node + 1] + data.service_times[from_node + 1].v

\* The Time dimension of lines 133-153 along one vehicle's nodes: cumul
\* values from 0 to 86400, a wait of up to 86400 at every node, and the
\* cumul value at a customer node within that node's time window.  at is
\* the earliest cumul value at node previous.
RECURSIVE TimeFeasible(_, _, _, _)
TimeFeasible(data, nodes, previous, at) ==
    IF nodes = <<>> THEN at + TimeTransit(data, previous, 0) <= 86400
    ELSE LET node == Head(nodes)
             earliest == Max(data.time_windows[node + 1][1],
                             at + TimeTransit(data, previous, node))
         IN /\ earliest <= data.time_windows[node + 1][2]
            /\ TimeFeasible(data, Tail(nodes), node, earliest)

TimeDimension(data, req, assignment) ==
    req.use_time_windows =>
        \A j \in 1..data.num_vehicles : TimeFeasible(data, assignment[j], 0, 0)

\* What routing.SolveWithParameters may return: an assignment satisfying
\* the model's constraints, or nothing (none exists, or the bounded search
\* found none).
NoAssignment == [found |-> FALSE, routes |-> <<>>]

_solve_with_ortools(data, req) ==
    {[found |-> TRUE, routes |-> a] :
        a \in {x \in Assignments(data) : /\ CapacityDimension(data, req, x)
                                         /\ TimeDimension(data, req, x)}}
      \cup {NoAssignment}

\* The while loop of lines 279-324 from the first customer node on.
RECURSIVE OrtoolsWalk(_, _, _, _)
OrtoolsWalk(acc, nodes, data, req) ==
    IF acc.raised \/ nodes = <<>> THEN acc
    ELSE LET node_index == Head(nodes)
             next_node == IF Len(nodes) > 1 THEN nodes[2] ELSE 0
             customer == req.customers[node_index]
             service_time == [customer.service_time EXCEPT !.v = @ * 60]
             departure == [v |-> acc.current_time.v + service_time.v,
                           float |-> acc.current_time.float \/ service_time.float]
             travel_time == data.time_matrix[node_index + 1][next_node + 1]
         IN IF FormatRaises(acc.current_time) \/ FormatRaises(departure)
            THEN [acc EXCEPT !.raised = TRUE]
            ELSE OrtoolsWalk(
                   [stops |-> Append(acc.stops,
                        RouteStop("customer", customer.id, customer.name,
                                  customer.coordinate, customer.demand,
                                  acc.route_load + customer.demand,
                                  _seconds_to_time(acc.current_time),
                                  _seconds_to_time(departure),
                                  customer.service_time)),
                    route_distance |-> acc.route_distance
                        + data.distance_matrix[node_index + 1][next_node + 1],
                    route_load |-> acc.route_load + customer.demand,
                    route_time |-> acc.route_time + travel_time,
                    current_time |-> [departure EXCEPT !.v = @ + travel_time],
                    raised |-> FALSE],
                   Tail(nodes), data, req)

\* _create_route for the vehicle at position vehicle_id, whose customer
\* nodes in the solver's assignment are nodes.  The arc cost read back from
\* the routing model is the distance matrix entry.
_create_route(vehicle_id, nodes, data, req) ==
    LET vehicle == req.vehicles[vehicle_id]
        first == IF nodes = <<>> THEN 0 ELSE Head(nodes)
        start == [stops |-> <<DepotStop(0, _seconds_to_time(PyInt(0)))>>,
                  route_distance |-> data.distance_matrix[1][first + 1],
                  route_load |-> 0,
                  route_time |-> data.time_matrix[1][first + 1],
                  current_time |-> PyInt(data.time_matrix[1][first + 1]),
                  raised |-> FALSE]
        walk == OrtoolsWalk(start, nodes, data, req)
    IN IF walk.raised \/ FormatRaises(walk.current_time) THEN [raised |-> TRUE]
       ELSE [raised |-> FALSE,
             vehicle_id |-> <<"V", vehicle_id>>,
             vehicle_name |-> vehicle.name,
             vehicle_type |-> vehicle.type,
             capacity |-> vehicle.capacity,
             stops |-> Append(walk.stops,
                              DepotStop(walk.route_load,
                                        _seconds_to_time(walk.current_time))),
             total_distance |-> walk.route_distance,
             total_cost |-> walk.route_distance * vehicle.cost_per_km,
             total_load |-> walk.route_load,
             total_time |-> walk.route_time]

\* _format_solution, which raises when a route's creation raises.
_format_solution(found, data, req) ==
    LET made == [j \in 1..data.num_vehicles |->
                    _create_route(j, found.routes[j], data, req)]
    IN IF \E j \in 1..Len(made) : made[j].raised THEN Raised
       ELSE LET kept == SelectSeq(made, LAMBDA r : Len(CustomerStops(r)) > 0)
                routes == [i \in 1..Len(kept) |-> AsRoute(kept[i])]
            IN VRPSolution(routes,
                           Round2(SumOver(routes, "total_distance")),
                           Round2(SumOver(routes, "total_cost")),
                           Round2Hours(SumOver(routes, "total_time")),
                           Len(routes), CountCustomerStops(routes), "OR-Tools")

\* VRPService.solve_vrp for the outcome found of the solver's search.
VRPService_solve_vrp(req, found) ==
    ExceptReturnNone(IF ~found.found THEN None
                     ELSE _format_solution(found, _create_data_model(req), req))

(***************************************************************************)
(* services/validation_service.py                                          *)
(***************************************************************************)
\* _is_valid_time: two integers around one colon, hours 0-23, minutes 0-59.
_is_valid_time(time_str) ==
    LET parts == Split(time_str)
    IN /\ Len(parts) = 2
       /\ ~IntRaises(parts[1])
       /\ ~IntRaises(parts[2])
       /\ ParseInt(parts[1]) \in 0..23
       /\ ParseInt(parts[2]) \in 0..59

_validate_customer(customer, index) ==
    (IF customer.demand <= 0 THEN <<<<"Customer", index, "Demand must be positive">>>>
     ELSE <<>>)
    \o (IF customer.service_time.v < 0
        THEN <<<<"Customer", index, "Service time cannot be negative">>>> ELSE <<>>)
    \o (IF customer.time_window = None THEN <<>>
        ELSE (IF ~_is_valid_time(customer.time_window.start)
              THEN <<<<"Customer", index, "Invalid time window start time">>>>
              ELSE <<>>)
             \o (IF ~_is_valid_time(customer.time_window.end)
                 THEN <<<<"Customer", index, "Invalid time window end time">>>>
                 ELSE <<>>)
             \o (IF /\ _is_valid_time(customer.time_window.start)
                    /\ _is_valid_time(customer.time_window.end)
                    /\ _time_to_seconds(customer.time_window.start)
                          >= _time_to_seconds(customer.time_window.end)
                 THEN <<<<"Customer", index, "Time window start must be before end">>>>
                 ELSE <<>>))

_validate_vehicle(vehicle, index) ==
    (IF vehicle.capacity <= 0 THEN <<<<"Vehicle", index, "Capacity must be positive">>>>
     ELSE <<>>)
    \o (IF vehicle.cost_per_km <= 0
        THEN <<<<"Vehicle", index, "Cost per km must be positive">>>> ELSE <<>>)

RECURSIVE Flatten(_)
Flatten(ss) == IF ss = <<>> THEN <<>> ELSE Head(ss) \o Flatten(Tail(ss))

\* validate_vrp_request: the list of error messages.
validate_nothing(req) == <<>>

validate_vrp_request(req) ==
    (IF req.customers = <<>> THEN <<<<"Request", 0, "At least one customer is required">>>>
     ELSE Flatten([i \in 1..Len(req.customers) |->
                      _validate_customer(req.customers[i], i)]))
    \o (IF req.vehicles = <<>>
        THEN <<<<"Request", 0, "At least one vehicle is required">>>>
        ELSE Flatten([j \in 1..Len(req.vehicles) |->
                         _validate_vehicle(req.vehicles[j], j)]))
    \o (IF req.max_solving_time <= 0
        THEN <<<<"Request", 0, "Max solving time must be positive">>>>
        ELSE IF req.max_solving_time > 3600
        THEN <<<<"Request", 0, "Max solving time cannot exceed 3600 seconds">>>>
        ELSE <<>>)

(***************************************************************************)
(* controllers/vrp_controller.py                                           *)
(***************************************************************************)
\* _convert_solution_to_dict: the camel-case dictionary of a solution.
ConvertStop(stop) ==
    [type |-> stop.type, id |-> stop.id, name |-> stop.name,
     coordinate |-> stop.coordinate, demand |-> stop.demand, load |-> stop.load,
     arrivalTime |-> stop.arrival_time, departureTime |-> stop.departure_time,
     serviceTime |-> stop.service_time]

ConvertRoute(route) ==
    [vehicleId |-> route.vehicle_id, vehicleName |-> route.vehicle_name,
     vehicleType |-> route.vehicle_type, capacity |-> route.capacity,
     stops |-> [k \in 1..Len(route.stops) |-> ConvertStop(route.stops[k])],
     totalDistance |-> route.total_distance, totalCost |-> route.total_cost,
     totalLoad |-> route.total_load, totalTime |-> route.total_time]

_convert_solution_to_dict(solution) ==
    [routes |-> [i \in 1..Len(solution.routes) |-> ConvertRoute(solution.routes[i])],
     totalDistance |-> solution.total_distance, totalCost |-> solution.total_cost,
     totalTime |-> solution.total_time, vehiclesUsed |-> solution.vehicles_used,
     customersServed |-> solution.customers_served, status |-> solution.status,
     algorithm |-> solution.algorithm]

NoData == [status |-> "absent"]

NoResponse == [success |-> FALSE, data |-> NoData, error |-> "", details |-> <<>>]

\* What a call's record keeps of the collaborator's reply: its kind, the
\* number of routes it names and the number of those whose conversion by
\* _create_route_from_data ends in the handler of lines 268-270.
NoReply == [kind |-> "none", routes |-> 0, unconverted |-> 0]

ReplyFacts(reply, req) ==
    IF reply.kind # "json" THEN [NoReply EXCEPT !.kind = reply.kind]
    ELSE [kind |-> "json", routes |-> Len(reply.routes),
          unconverted |->
             Len(SelectSeq(reply.routes,
                           LAMBDA r : _create_route_from_data(r, req) = None))]

NoCall == [strategy |-> "none", returned |-> None, reply |-> NoReply]

Call(strategy, returned) ==
    [strategy |-> strategy, returned |-> returned, reply |-> NoReply]

GeminiCall(reply, returned, req) ==
    [strategy |-> "Gemini", returned |-> returned, reply |-> ReplyFacts(reply, req)]

\* A request body with every key _convert_to_vrp_request reads, standing
\* for the VRPRequest it converts to, and a body without the key 'depot'.
Payload(req) == [complete |-> TRUE, request |-> req]

PayloadWithoutDepot == [complete |-> FALSE, request |-> VRPRequest(<<>>, <<>>, TRUE)]

NoWorkers == <<>>

NoSearch == [phase |-> "none", time_limit |-> 0, elapsed |-> 0, returned |-> "nothing"]

NoProbe == [fn |-> "none", arg |-> <<>>, out |-> <<>>, applied |-> FALSE]

\* The quotient a / b of line 137 is the pair <<a, b>>; 0.0 is <<0, 1>>.
NewStats ==
    [total_requests |-> 0, successful_solves |-> 0, failed_solves |-> 0,
     total_solving_time |-> 0, average_solving_time |-> <<0, 1>>]

\* The state after construction (lines 29-36) with a request body at hand.
InitWith(requests) ==
    /\ request_data \in {Payload(r) : r \in requests} \cup {PayloadWithoutDepot}
    /\ request = request_data.request
    /\ pc = "idle"
    /\ result = None
    /\ response = NoResponse
    /\ solving_stats = NewStats
    /\ invoked = <<>>
    /\ direct = NoCall
    /\ workers = NoWorkers
    /\ search = NoSearch
    /\ probe = NoProbe
    /\ answered = <<>>

Init == InitWith(Requests \cup RejectedRequests)

\* The handler of lines 169-180: an exception raised inside the try block
\* counts as a failed solve and becomes a failure answer carrying its text.
SolveExceptUncounted(stats, message) ==
    /\ solving_stats' = stats
    /\ response' = [success |-> FALSE, data |-> NoData, error |-> message,
                    details |-> <<>>]
    /\ pc' = "done"

SolveExcept(stats, message) ==
    /\ solving_stats' = [stats EXCEPT !.failed_solves = @ + 1]
    /\ response' = [success |-> FALSE, data |-> NoData, error |-> message,
                    details |-> <<>>]
    /\ pc' = "done"

\* solve_vrp, lines 91-118: count the request, validate it, and answer a
\* request with validation errors at once.
SolveValidate ==
    /\ pc = "idle"
    /\ LET counted == [solving_stats EXCEPT !.total_requests = @ + 1]
           validation_errors == validate_vrp_request(request)
       IN IF ~request_data.complete
          THEN SolveExcept(counted, "KeyError")
          ELSE /\ solving_stats' = counted
               /\ IF validation_errors # <<>>
                  THEN /\ response' = [success |-> FALSE, data |-> NoData,
                                       error |-> "Input validation failed",
                                       details |-> validation_errors]
                       /\ pc' = "done"
                  ELSE /\ response' = response
                       /\ pc' = "simple"
    /\ UNCHANGED <<request_data, request, result, invoked, direct, workers, search, probe,
                   answered>>

\* time.time() - start_time at line 131: one unit for each strategy the
\* solve has called.
SolvingTime == Len(invoked) + 1

\* Lines 133-137.
CountSolved(stats) ==
    [stats EXCEPT !.successful_solves = @ + 1,
                  !.total_solving_time = @ + SolvingTime,
                  !.average_solving_time =
                      <<stats.total_solving_time + SolvingTime,
                        stats.successful_solves + 1>>]

\* Lines 131-167: count the outcome and build the answer.
SolveFinishMiscounted(returned) ==
    /\ solving_stats' = CountSolved(solving_stats)
    /\ response' = IF returned # None
                   THEN [success |-> TRUE, data |-> _convert_solution_to_dict(returned),
                         error |-> "", details |-> <<>>]
                   ELSE [success |-> FALSE, data |-> NoData,
                         error |-> "Cozum bulunamadi", details |-> <<>>]
    /\ pc' = "done"

SolveFinish(returned) ==
    IF returned = Raised THEN SolveExcept(solving_stats, "Exception")
    ELSE /\ IF returned # None
            THEN /\ solving_stats' = CountSolved(solving_stats)
                 /\ response' = [success |-> TRUE,
                                 data |-> _convert_solution_to_dict(returned),
                                 error |-> "", details |-> <<>>]
            ELSE /\ solving_stats' = [solving_stats EXCEPT !.failed_solves = @ + 1]
                 /\ response' = [success |-> FALSE, data |-> NoData,
                                 error |-> "Cozum bulunamadi", details |-> <<>>]
         /\ pc' = "done"

\* Lines 124 and 127: a strategy that returned None hands over to the next
\* one, any other value ends the chain.
SolveContinueRegardless(returned, next) ==
    /\ pc' = next
    /\ UNCHANGED <<response, solving_stats, answered>>

SolveContinue(returned, next) ==
    IF returned # None THEN SolveFinish(returned)
    ELSE /\ pc' = next
         /\ UNCHANGED <<response, solving_stats, answered>>

\* Line 122, and the rest of solve_vrp when the greedy strategy answers.
SolveSimple ==
    /\ pc = "simple"
    /\ result' = SimpleVRPService_solve_vrp(request)
    /\ invoked' = Append(invoked, Call("Simple", result'))
    /\ SolveContinue(result', "gemini")
    /\ request' = RequestAfterSimple(request)
    /\ UNCHANGED <<request_data, direct, workers, search, probe, answered>>

\* Line 126, and the rest of solve_vrp when the adapter answers.
SolveGemini ==
    /\ pc = "gemini"
    /\ \E reply \in Replies(request) :
          /\ result' = GeminiVRPService_solve_vrp(request, reply)
          /\ invoked' = Append(invoked, GeminiCall(reply, result', request))
    /\ SolveContinue(result', "ortools")
    /\ UNCHANGED <<request_data, request, direct, workers, search, probe, answered>>

\* Line 129 and the rest of solve_vrp.
SolveORTools ==
    /\ pc = "ortools"
    /\ \E found \in _solve_with_ortools(_create_data_model(request), request) :
          result' = VRPService_solve_vrp(request, found)
    /\ invoked' = Append(invoked, Call("OR-Tools", result'))
    /\ SolveFinish(result')
    /\ UNCHANGED <<request_data, request, direct, workers, search, probe, answered>>

\* A strategy called on its own, outside the controller.
DirectSimple ==
    /\ pc = "idle"
    /\ request_data.complete
    /\ direct' = Call("Simple", SimpleVRPService_solve_vrp(request))
    /\ request' = RequestAfterSimple(request)
    /\ pc' = "direct"
    /\ UNCHANGED <<request_data, result, response, solving_stats, invoked, workers, search,
                   probe, answered>>

\* The routing index manager takes at least one vehicle.
DirectORTools ==
    /\ pc = "idle"
    /\ request_data.complete
    /\ request.vehicles # <<>>
    /\ \E found \in _solve_with_ortools(_create_data_model(request), request) :
          direct' = Call("OR-Tools", VRPService_solve_vrp(request, found))
    /\ pc' = "direct"
    /\ UNCHANGED <<request_data, request, result, response, solving_stats, invoked, workers,
                   search, probe, answered>>

Next ==
    \/ SolveValidate
    \/ SolveSimple
    \/ SolveGemini
    \/ SolveORTools
    \/ DirectSimple
    \/ DirectORTools

Spec == Init /\ [][Next]_vars

(***************************************************************************)
(* Several requests served at once by the threads of one process on the    *)
(* one VRPController of app.py line 46.  solving_stats is the only state   *)
(* the threads share, and no lock guards it: each `+= ` of solve_vrp is a  *)
(* load of the counter, an addition and a store, and another thread may    *)
(* run between the load and the store.                                     *)
(***************************************************************************)
MaxWorkers == 2

\* The requests the threads serve: one the greedy strategy solves, and one
\* it fails on, which the adapter's reply decides.
WorkerRequests ==
    {VRPRequest(<<Customer(1, 1000, 1, st)>>, <<Vehicle(1, 2)>>, TRUE) :
        st \in ServiceTimes}

\* Whether the fallback chain of lines 117-129 can end with a solution, and
\* whether it can end without one.
ChainOutcomes(req) ==
    IF SimpleVRPService_solve_vrp(req) # None THEN {"solved"}
    ELSE UNION {IF GeminiVRPService_solve_vrp(req, reply) # None THEN {"solved"}
                ELSE {IF VRPService_solve_vrp(req, found) # None
                      THEN "solved" ELSE "unsolved" :
                         found \in _solve_with_ortools(_create_data_model(req), req)} :
                   reply \in Replies(req)}

InitWorkers ==
    /\ request_data = PayloadWithoutDepot
    /\ request = request_data.request
    /\ pc = "serving"
    /\ result = None
    /\ response = NoResponse
    /\ solving_stats = NewStats
    /\ invoked = <<>>
    /\ direct = NoCall
    /\ workers \in [1..MaxWorkers ->
                      {[pc |-> "load_total", request |-> r, read |-> 0,
                        outcome |-> "pending"] : r \in WorkerRequests}]
    /\ search = NoSearch
    /\ probe = NoProbe
    /\ answered = <<>>

\* The counter a thread is about to load or store.
WorkerCounter(w) ==
    CASE w.pc \in {"load_total", "store_total"} -> "total_requests"
      [] w.pc \in {"load_count", "store_count"} ->
            (IF w.outcome = "solved" THEN "successful_solves" ELSE "failed_solves")
      [] w.pc \in {"load_time", "store_time"} -> "total_solving_time"

\* The load of a `+=`: lines 91, 134, 135 and 157.
WorkerLoad(t) ==
    /\ workers[t].pc \in {"load_total", "load_count", "load_time"}
    /\ workers' = [workers EXCEPT
                      ![t].read = solving_stats[WorkerCounter(workers[t])],
                      ![t].pc = CASE @ = "load_total" -> "store_total"
                                  [] @ = "load_count" -> "store_count"
                                  [] @ = "load_time" -> "store_time"]
    /\ UNCHANGED <<request_data, request, pc, result, response, solving_stats,
                   invoked, direct, search, probe, answered>>

\* The store of a `+=`, of the value loaded plus the increment; the store
\* of total_solving_time is followed by the assignment of lines 136-137.
WorkerStore(t) ==
    /\ workers[t].pc \in {"store_total", "store_count", "store_time"}
    /\ solving_stats' =
          LET stored == [solving_stats EXCEPT
                            ![WorkerCounter(workers[t])] = workers[t].read + 1]
          IN IF workers[t].pc = "store_time"
             THEN [stored EXCEPT !.average_solving_time =
                                    <<stored.total_solving_time,
                                      stored.successful_solves>>]
             ELSE stored
    /\ workers' = [workers EXCEPT
                      ![t].pc = CASE @ = "store_total" -> "solve"
                                  [] @ = "store_count" ->
                                        (IF workers[t].outcome = "solved"
                                         THEN "load_time" ELSE "returned")
                                  [] @ = "store_time" -> "returned"]
    /\ UNCHANGED <<request_data, request, pc, result, response, invoked, direct,
                   search, probe, answered>>

\* Lines 96-131: conversion, validation and the fallback chain, which touch
\* nothing the threads share.
WorkerSolve(t) ==
    /\ workers[t].pc = "solve"
    /\ \E outcome \in ChainOutcomes(workers[t].request) :
          workers' = [workers EXCEPT ![t].outcome = outcome, ![t].pc = "load_count"]
    /\ UNCHANGED <<request_data, request, pc, result, response, solving_stats,
                   invoked, direct, search, probe, answered>>

NextWorkers ==
    \E t \in 1..MaxWorkers :
        \/ WorkerLoad(t)
        \/ WorkerStore(t)
        \/ WorkerSolve(t)

SpecWorkers == InitWorkers /\ [][NextWorkers]_vars

(***************************************************************************)
(* One call of VRPService.solve_vrp with the search of                     *)
(* routing.SolveWithParameters spread over time: search.elapsed counts the *)
(* seconds the search has run, search.time_limit is the limit line 165     *)
(* hands to the solver.  The search runs in the calling thread and returns *)
(* when it has an answer or when its limit is reached.                     *)
(***************************************************************************)
TimeLimitCeiling == 30

\* Line 165: search_parameters.time_limit.seconds.
TimeLimit(req) == Min(req.max_solving_time, TimeLimitCeiling)

\* Requests of one customer and one vehicle of capacity 2, asking for at
\* most 1, 2 or 40 seconds.
SearchRequests ==
    {[VRPRequest(<<Customer(1, 1000, dem, st)>>, <<Vehicle(1, 2)>>, TRUE)
         EXCEPT !.max_solving_time = m] :
        dem \in Demands, st \in ServiceTimes, m \in {1, 2, 40}}

InitSearch ==
    /\ request \in SearchRequests
    /\ request_data = Payload(request)
    /\ pc = "search"
    /\ result = None
    /\ response = NoResponse
    /\ solving_stats = NewStats
    /\ invoked = <<>>
    /\ direct = NoCall
    /\ workers = NoWorkers
    /\ search = NoSearch
    /\ probe = NoProbe
    /\ answered = <<>>

\* Lines 22-176: the data model, the routing model and the search
\* parameters are built and the search begins.
SearchStart ==
    /\ pc = "search"
    /\ search.phase = "none"
    /\ search' = [phase |-> "searching", time_limit |-> TimeLimit(request),
                  elapsed |-> 0, returned |-> "nothing"]
    /\ UNCHANGED <<request_data, request, pc, result, response, solving_stats,
                   invoked, direct, workers, probe, answered>>

\* The solver goes on searching only while its time limit is not reached.
SearchUnlimited(s) == s.elapsed < 2 * TimeLimitCeiling

SearchWithinLimit(s) == s.elapsed < s.time_limit

\* A second of search.
SearchTick ==
    /\ search.phase = "searching"
    /\ SearchWithinLimit(search)
    /\ search' = [search EXCEPT !.elapsed = @ + 1]
    /\ UNCHANGED <<request_data, request, pc, result, response, solving_stats,
                   invoked, direct, workers, probe, answered>>

\* Line 178 returns, with an assignment or with nothing, and the rest of
\* solve_vrp (lines 180-43) turns it into a solution or None.
SearchEnd ==
    /\ search.phase = "searching"
    /\ \E found \in _solve_with_ortools(_create_data_model(request), request) :
          LET returned == VRPService_solve_vrp(request, found)
          IN /\ direct' = Call("OR-Tools", returned)
             /\ search' = [search EXCEPT
                              !.phase = "returned",
                              !.returned = IF returned = None THEN "None"
                                           ELSE "Solution"]
    /\ UNCHANGED <<request_data, request, pc, result, response, solving_stats,
                   invoked, workers, probe, answered>>

NextSearch ==
    \/ SearchStart
    \/ SearchTick
    \/ SearchEnd

SpecSearch == InitSearch /\ [][NextSearch]_vars /\ WF_vars(NextSearch)

(***************************************************************************)
(* One controller serving one request after the other: solve_vrp is        *)
(* called again once it has returned, on the statistics the calls before   *)
(* it left.                                                                *)
(***************************************************************************)
MaxCalls == 3

\* A request the greedy strategy solves, one it does not (its service time
\* is a float), and one the validation rejects (a demand of 0).
SequentialRequests ==
    LET one == VRPRequest(<<Customer(1, 1000, 1, PyInt(1))>>, <<Vehicle(1, 2)>>, TRUE)
    IN {one,
        [one EXCEPT !.customers[1].service_time = PyFloat(1)],
        [one EXCEPT !.customers[1].demand = 0]}

InitSequential == InitWith(SequentialRequests)

\* The next call of solve_vrp on the same controller.
NextRequest ==
    /\ pc = "done"
    /\ solving_stats.total_requests < MaxCalls
    /\ request_data' \in {Payload(r) : r \in SequentialRequests} \cup {PayloadWithoutDepot}
    /\ request' = request_data'.request
    /\ pc' = "idle"
    /\ result' = None
    /\ response' = NoResponse
    /\ invoked' = <<>>
    /\ answered' = Append(answered, [success |-> response.success,
                                     error |-> response.error])
    /\ UNCHANGED <<solving_stats, direct, workers, search, probe>>

NextSequential ==
    \/ SolveValidate
    \/ SolveSimple
    \/ SolveGemini
    \/ SolveORTools
    \/ NextRequest

SpecSequential == InitSequential /\ [][NextSequential]_vars

(***************************************************************************)
(* The helper functions of VRPService applied to arguments of their own:   *)
(* probe.arg is the argument, probe.out the value returned.                *)
(***************************************************************************)
\* The clock strings "00:00" to "23:59".
ClockStrings ==
    {<<Digits[h1 + 1], Digits[h2 + 1], ":", Digits[m1 + 1], Digits[m2 + 1]>> :
        h1 \in 0..2, h2 \in 0..9, m1 \in 0..5, m2 \in 0..9} \
    {<<"2", Digits[h2 + 1], ":", Digits[m1 + 1], Digits[m2 + 1]>> :
        h2 \in 4..9, m1 \in 0..5, m2 \in 0..9}

\* Requests whose customers have the window 08:00-10:30 or none, with time
\* windows used or not.
Windows == {None, TimeWindow(<<"0", "8", ":", "0", "0">>, <<"1", "0", ":", "3", "0">>)}

WindowRequests ==
    {[VRPRequest([i \in 1..Len(p) |->
                     [Customer(i, p[i][1], p[i][2], st) EXCEPT !.time_window = p[i][3]]],
                 vs, TRUE)
         EXCEPT !.use_time_windows = u] :
        p \in SeqsUpTo(Positions \X Demands \X Windows, MaxCustomers - 1),
        st \in ServiceTimes, vs \in VehicleLists \ {<<>>}, u \in BOOLEAN}

\* A request with one vehicle and the customer nodes the solver put on that
\* vehicle's route, in the order of the route.
RouteArguments ==
    {[request |-> VRPRequest(cs, <<Vehicle(1, 2)>>, FALSE), nodes |-> nodes] :
        cs \in {c \in CustomerLists : c # <<>> /\ ~c[1].service_time.float},
        nodes \in UNION {Perms(S) : S \in SUBSET (1..MaxCustomers)}} 

\* Positions north and south of the depot, two of them at one distance
\* from it.
ProbePositions == {0 - 1000, 1000, 3004}

\* Four customers of demand 10 at about 0.01 and 0.02 degrees from the
\* depot, two to each side, and two vehicles of capacity 25.
Scenario ==
    VRPRequest(<<Customer(1, 1112, 10, PyInt(15)), Customer(2, 2224, 10, PyInt(15)),
                 Customer(3, 0 - 1112, 10, PyInt(15)),
                 Customer(4, 0 - 2224, 10, PyInt(15))>>,
               <<Vehicle(1, 25), Vehicle(2, 25)>>, TRUE)

\* Requests of up to MaxCustomers + 1 customers and 1 to MaxVehicles + 1
\* vehicles for the greedy strategy.
GreedyRequests ==
    {VRPRequest([i \in 1..Len(p) |-> Customer(i, p[i], 1, st)],
                [j \in 1..k |-> Vehicle(j, j + 1)], TRUE) :
        p \in SeqsUpTo(ProbePositions, MaxCustomers + 1),
        st \in ServiceTimes, k \in 1..(MaxVehicles + 1)} \cup {Scenario}

\* Three vehicles of capacity 1000 and three customers of demand 10.
CollapseScenario ==
    VRPRequest(<<Customer(1, 1000, 10, PyInt(1)), Customer(2, 3004, 10, PyInt(1)),
                 Customer(3, 0 - 1000, 10, PyInt(1))>>,
               <<Vehicle(1, 1000), Vehicle(2, 1000), Vehicle(3, 1000)>>, TRUE)

\* Requests with time windows in use, customers of demand 1 and integer
\* service times, each with the window 08:00-10:30 or none.
TimeWindowRequests ==
    {r \in WindowRequests :
        /\ r.use_time_windows
        /\ \A i \in 1..Len(r.customers) :
              r.customers[i].demand = 1 /\ ~r.customers[i].service_time.float}

ORToolsRequests == {CollapseScenario} \cup TimeWindowRequests

\* A returned route and the request it is reconciled with: the route names
\* a vehicle by any id and any name of the request's vehicles, or by an id
\* or a name that no vehicle has.
RouteDataArguments ==
    {[request |-> req,
      route_data |-> [vehicle_id |-> id, vehicle_name |-> name, stops |-> stops,
                      total_distance |-> 5000, total_cost |-> 10000,
                      total_load |-> JNum(1)]] :
        req \in {VRPRequest(<<Customer(1, 1000, 1, PyInt(1))>>,
                            [j \in 1..k |-> Vehicle(j, j + 1)], TRUE) :
                    k \in 1..(MaxVehicles + 1)},
        id \in {Vehicle(j, j + 1).id : j \in 1..(MaxVehicles + 1)} \cup {Unknown},
        name \in {Vehicle(j, j + 1).name : j \in 1..(MaxVehicles + 1)} \cup {Unknown},
        stops \in {<<>>, <<ReplyDepot, [type |-> "customer", name |-> Customer(1, 1000, 1, PyInt(1)).name], ReplyDepot>>}}

InitFunctions ==
    /\ \/ /\ probe \in {[fn |-> "_create_route_from_data", arg |-> a, out |-> <<>>,
                            applied |-> FALSE] : a \in RouteDataArguments}
          /\ request = probe.arg.request
       \/ /\ probe \in {[fn |-> "VRPService.solve_vrp", arg |-> r, out |-> <<>>,
                            applied |-> FALSE] : r \in ORToolsRequests}
          /\ request = probe.arg
       \/ /\ probe \in {[fn |-> "SimpleVRPService.solve_vrp", arg |-> r, out |-> <<>>,
                            applied |-> FALSE] : r \in GreedyRequests}
          /\ request = probe.arg
       \/ /\ probe \in {[fn |-> "clock", arg |-> str, out |-> <<>>,
                            applied |-> FALSE] : str \in ClockStrings}
          /\ request = PayloadWithoutDepot.request
       \/ /\ probe \in {[fn |-> "_create_data_model", arg |-> r, out |-> <<>>,
                            applied |-> FALSE] : r \in WindowRequests}
          /\ request = probe.arg
       \/ /\ probe \in {[fn |-> "_create_route", arg |-> a, out |-> <<>>,
                            applied |-> FALSE] :
                            a \in {x \in RouteArguments :
                                     \A k \in 1..Len(x.nodes) :
                                         x.nodes[k] <= Len(x.request.customers)}}
          /\ request = probe.arg.request
    /\ request_data = Payload(request)
    /\ pc = "functions"
    /\ result = None
    /\ response = NoResponse
    /\ solving_stats = NewStats
    /\ invoked = <<>>
    /\ direct = NoCall
    /\ workers = NoWorkers
    /\ search = NoSearch
    /\ answered = <<>>

\* _seconds_to_time(_time_to_seconds(time_str)).
ApplyClock ==
    /\ probe.fn = "clock"
    /\ ~probe.applied
    /\ probe' = [probe EXCEPT
                    !.out = ClockText(_seconds_to_time(PyInt(_time_to_seconds(probe.arg)))),
                    !.applied = TRUE]
    /\ UNCHANGED <<request_data, request, pc, result, response, solving_stats,
                   invoked, direct, workers, search, answered>>

ApplyCreateDataModel ==
    /\ probe.fn = "_create_data_model"
    /\ ~probe.applied
    /\ probe' = [probe EXCEPT !.out = _create_data_model(probe.arg),
                              !.applied = TRUE]
    /\ UNCHANGED <<request_data, request, pc, result, response, solving_stats,
                   invoked, direct, workers, search, answered>>

ApplyCreateRoute ==
    /\ probe.fn = "_create_route"
    /\ ~probe.applied
    /\ probe' = [probe EXCEPT
                    !.out = _create_route(1, probe.arg.nodes,
                                          _create_data_model(probe.arg.request),
                                          probe.arg.request),
                    !.applied = TRUE]
    /\ UNCHANGED <<request_data, request, pc, result, response, solving_stats,
                   invoked, direct, workers, search, answered>>

ApplySimpleSolve ==
    /\ probe.fn = "SimpleVRPService.solve_vrp"
    /\ ~probe.applied
    /\ probe' = [probe EXCEPT !.out = SimpleVRPService_solve_vrp(probe.arg),
                              !.applied = TRUE]
    /\ request' = RequestAfterSimple(request)
    /\ UNCHANGED <<request_data, pc, result, response, solving_stats,
                   invoked, direct, workers, search, answered>>

\* VRPService.solve_vrp, the solver returning any assignment its routing
\* model admits, or none.
ApplyORToolsSolve ==
    /\ probe.fn = "VRPService.solve_vrp"
    /\ ~probe.applied
    /\ \E found \in _solve_with_ortools(_create_data_model(probe.arg), probe.arg) :
          probe' = [probe EXCEPT !.out = VRPService_solve_vrp(probe.arg, found),
                                 !.applied = TRUE]
    /\ UNCHANGED <<request_data, request, pc, result, response, solving_stats,
                   invoked, direct, workers, search, answered>>

ApplyCreateRouteFromData ==
    /\ probe.fn = "_create_route_from_data"
    /\ ~probe.applied
    /\ probe' = [probe EXCEPT
                    !.out = _create_route_from_data(probe.arg.route_data,
                                                    probe.arg.request),
                    !.applied = TRUE]
    /\ UNCHANGED <<request_data, request, pc, result, response, solving_stats,
                   invoked, direct, workers, search, answered>>

NextFunctions ==
    \/ ApplyCreateRouteFromData
    \/ ApplySimpleSolve
    \/ ApplyORToolsSolve
    \/ ApplyClock
    \/ ApplyCreateDataModel
    \/ ApplyCreateRoute

SpecFunctions == InitFunctions /\ [][NextFunctions]_vars

(***************************************************************************)
(* Properties.                                                             *)
(***************************************************************************)
StrategyOrder == <<"Simple", "Gemini", "OR-Tools">>

\* The strategy calls made so far, by the controller or on their own.
Calls ==
    {invoked[i] : i \in 1..Len(invoked)}
        \cup (IF direct.strategy = "none" THEN {} ELSE {direct})

CallsOf(strategy) == {c \in Calls : c.strategy = strategy}

Solutions == {c.returned : c \in {x \in Calls : x.returned # None}}

Validated == validate_vrp_request(request) = <<>>

\* How often customer c is a customer stop of the solution's routes.
Occurrences(sol, c) ==
    SumSeq([r \in 1..Len(sol.routes) |->
              Len(SelectSeq(sol.routes[r].stops,
                            LAMBDA st : st.type = "customer" /\ st.id = c.id))])

ServesEachOnce(sol, req) ==
    \A i \in 1..Len(req.customers) : Occurrences(sol, req.customers[i]) = 1

DemandOfStops(route) ==
    SumSeq([k \in 1..Len(CustomerStops(route)) |-> CustomerStops(route)[k].demand])

\* No way of giving each customer to a vehicle keeps every vehicle's load
\* within its capacity.
NoFit(req) ==
    \A f \in [1..Len(req.customers) -> 1..Len(req.vehicles)] :
        \E j \in 1..Len(req.vehicles) :
            SumSeq([i \in 1..Len(req.customers) |->
                      IF f[i] = j THEN req.customers[i].demand ELSE 0])
                > req.vehicles[j].capacity

C2_FailureOrOneSolution ==
    /\ (pc = "done" /\ Len(invoked) = 3 /\ \A i \in 1..3 : invoked[i].returned = None)
          => /\ ~response.success
             /\ response.error # ""
             /\ response.data = NoData
             /\ solving_stats.failed_solves = 1
             /\ solving_stats.successful_solves = 0
    /\ response.success
          => /\ Cardinality({i \in 1..Len(invoked) : invoked[i].returned # None}) = 1
             /\ \E i \in 1..Len(invoked) :
                   /\ invoked[i].returned # None
                   /\ response.data = _convert_solution_to_dict(invoked[i].returned)
             /\ solving_stats.successful_solves = 1
             /\ solving_stats.failed_solves = 0

C2_Witness ==
    /\ pc = "done"
    /\ Len(invoked) = 3
    /\ \A i \in 1..3 : invoked[i].returned = None
    /\ ~response.success
    /\ solving_stats.failed_solves = 1

\* C3: with at least as many customers as vehicles and at least one
\* vehicle, a solution of the greedy strategy has one route per vehicle, in
\* the vehicles' order, and every customer of the request is a customer stop
\* of exactly one route, with no other customer stop.
C3_GreedyUsesAllVehicles ==
    \A c \in CallsOf("Simple") :
        (c.returned # None
           /\ Len(request.customers) >= Len(request.vehicles)
           /\ Len(request.vehicles) >= 1)
          => /\ Len(c.returned.routes) = Len(request.vehicles)
             /\ \A j \in 1..Len(request.vehicles) :
                   /\ c.returned.routes[j].vehicle_id = <<"V", j>>
                   /\ c.returned.routes[j].vehicle_name = request.vehicles[j].name
                   /\ Len(CustomerStops(c.returned.routes[j])) >= 1
             /\ ServesEachOnce(c.returned, request)
             /\ CountCustomerStops(c.returned.routes) = Len(request.customers)

C3_Witness ==
    \E c \in CallsOf("Simple") :
        /\ c.returned # None
        /\ Len(request.customers) = 3
        /\ Len(request.vehicles) = 2
        /\ Len(CustomerStops(c.returned.routes[1])) = 1
        /\ Len(CustomerStops(c.returned.routes[2])) = 2

\* C4: with use_capacity_constraints true, every route of a solution that
\* solve returns carries a total_load of at most its vehicle's capacity.
C4_LoadWithinCapacity ==
    (pc = "done" /\ response.success /\ request.use_capacity_constraints)
      => \A r \in 1..Len(result.routes) :
            result.routes[r].total_load <= result.routes[r].capacity

\* C5: in every route of a solution of any strategy, total_load is the sum
\* of the demands of the route's customer stops.
C5_LoadIsSumOfDemands ==
    \A sol \in Solutions :
        \A r \in 1..Len(sol.routes) :
            sol.routes[r].total_load = DemandOfStops(sol.routes[r])

\* C6: when solve answers success, every customer of the request is a
\* customer stop of exactly one route of the returned solution.
C6_SuccessServesEachOnce ==
    (pc = "done" /\ response.success) => ServesEachOnce(result, request)

\* C7: every route of a solution of any strategy starts with a depot stop,
\* ends with a depot stop, and has only customer stops in between.
C7_DepotAtBothEnds ==
    \A sol \in Solutions :
        \A r \in 1..Len(sol.routes) :
            LET stops == sol.routes[r].stops
            IN /\ Len(stops) >= 2
               /\ stops[1].type = "depot"
               /\ stops[Len(stops)].type = "depot"
               /\ \A k \in 2..(Len(stops) - 1) : stops[k].type = "customer"

\* C8: in a solution of any strategy every route has a customer stop,
\* vehicles_used is the number of routes, customers_served the number of
\* customer stops, and the totals are the sums over the routes.
C8_AggregatesMatchRoutes ==
    \A sol \in Solutions :
        /\ \A r \in 1..Len(sol.routes) : Len(CustomerStops(sol.routes[r])) >= 1
        /\ sol.vehicles_used = Len(sol.routes)
        /\ sol.customers_served = CountCustomerStops(sol.routes)
        /\ sol.total_distance = SumOver(sol.routes, "total_distance")
        /\ sol.total_cost = SumOver(sol.routes, "total_cost")
        /\ sol.total_time = SumOver(sol.routes, "total_time")

\* C9: with use_capacity_constraints true and no assignment within the
\* capacities, solve answers failure and returns no solution.
C9_InfeasibleIsReported ==
    (pc = "done" /\ Validated /\ request.use_capacity_constraints /\ NoFit(request))
      => (~response.success /\ response.data = NoData)

\* C10: when no assignment keeps the loads within the capacities the
\* constraint-programming strategy returns None, and no solution it returns
\* has a route loaded beyond its vehicle's capacity.
C10_OrtoolsRespectsCapacity ==
    \A c \in CallsOf("OR-Tools") :
        /\ NoFit(request) => c.returned = None
        /\ c.returned # None
              => \A r \in 1..Len(c.returned.routes) :
                    /\ c.returned.routes[r].total_load <= c.returned.routes[r].capacity
                    /\ DemandOfStops(c.returned.routes[r])
                          <= c.returned.routes[r].capacity

C10_Witness ==
    \E c \in CallsOf("OR-Tools") :
        /\ Len(request.customers) = 1
        /\ Len(request.vehicles) = 1
        /\ ~request.customers[1].service_time.float
        /\ request.customers[1].demand > request.vehicles[1].capacity
        /\ c.returned = None

\* C11: no strategy call ends in an exception: the greedy strategy called
\* with no vehicle returns None, the adapter returns None on a transport
\* error and on a reply that is no JSON; and solve_vrp itself answers a
\* failure, counted as a failed solve, when its own body raises.
C11_NothingRaises ==
    /\ \A c \in Calls : c.returned # Raised
    /\ \A c \in CallsOf("Simple") : request.vehicles = <<>> => c.returned = None
    /\ \A c \in CallsOf("Gemini") :
          c.reply.kind \in {"error", "text"} => c.returned = None
    /\ pc = "done"
          => /\ response # Raised
             /\ ~request_data.complete
                   => /\ ~response.success
                      /\ response.data = NoData
                      /\ response.error # ""
                      /\ invoked = <<>>
                      /\ solving_stats.failed_solves = 1

C11_Witness ==
    /\ direct.strategy = "Simple"
    /\ request.customers # <<>>
    /\ request.vehicles = <<>>
    /\ direct.returned = None

\* C12: when the conversion of a route of the collaborator's reply raises,
\* the adapter returns None.
C12_AllOrNothing ==
    \A c \in CallsOf("Gemini") : c.reply.unconverted > 0 => c.returned = None

\* A solution of one route returned for a reply of two routes, one of which
\* could not be converted.
C12_PartialSolution ==
    \E c \in CallsOf("Gemini") :
        /\ c.reply.routes = 2
        /\ c.reply.unconverted = 1
        /\ c.returned # None
        /\ Len(c.returned.routes) = 1

\* C13: a request with validation errors, one without customers or without
\* vehicles among them, is answered 'Input validation failed' with the list
\* of errors and no strategy is invoked; a strategy is invoked only for a
\* request without validation errors.
C13_ValidationGate ==
    /\ (pc = "done" /\ request_data.complete /\ ~Validated)
          => /\ invoked = <<>>
             /\ response = [success |-> FALSE, data |-> NoData,
                            error |-> "Input validation failed",
                            details |-> validate_vrp_request(request)]
    /\ (pc = "done" /\ request_data.complete
          /\ (request.customers = <<>> \/ request.vehicles = <<>>))
          => /\ invoked = <<>>
             /\ ~response.success
             /\ response.error = "Input validation failed"
             /\ response.details # <<>>
    /\ (invoked # <<>> \/ pc \in {"simple", "gemini", "ortools"})
          => (request_data.complete /\ Validated)

C13_Witness ==
    /\ pc = "done"
    /\ request.customers # <<>>
    /\ request.vehicles = <<>>
    /\ invoked = <<>>
    /\ response.error = "Input validation failed"
    /\ Len(response.details) = 1

\* C14: once every request served at the same time has returned,
\* total_requests is their number, successful_solves and failed_solves are
\* the numbers of those solved and not solved, and total_solving_time is the
\* sum of the solved ones' times.
C14_StatsCountEveryRequest ==
    (\A t \in 1..Len(workers) : workers[t].pc = "returned")
      => LET solved == {t \in 1..Len(workers) : workers[t].outcome = "solved"}
         IN /\ solving_stats.total_requests = Len(workers)
            /\ solving_stats.successful_solves = Cardinality(solved)
            /\ solving_stats.failed_solves = Len(workers) - Cardinality(solved)
            /\ solving_stats.total_solving_time = Cardinality(solved)

\* C15: a search of the constraint-programming strategy never runs beyond
\* min(max_solving_time, 30) seconds, and a call of the strategy that has
\* begun to search eventually returns, with a solution or with None.
C15_SearchReturns ==
    /\ [](/\ search.elapsed <= Min(request.max_solving_time, 30)
          /\ search.phase = "returned"
                => /\ direct.strategy = "OR-Tools"
                   /\ direct.returned # Raised
                   /\ direct.returned # None => direct.returned.status = "success")
    /\ (search.phase = "searching" ~> search.phase = "returned")

C15_Witness ==
    /\ search.phase = "returned"
    /\ request.max_solving_time = 40
    /\ search.elapsed = 30
    /\ direct.returned = None

\* C16: called with at least one vehicle and at least one customer, the
\* greedy strategy returns a solution of status 'success'.
C16_GreedyAlwaysAnswers ==
    \A c \in CallsOf("Simple") :
        (Len(request.customers) >= 1 /\ Len(request.vehicles) >= 1)
          => /\ c.returned # None
             /\ c.returned.status = "success"

\* C17: the time-window array built by _create_data_model has one pair
\* (start_seconds, end_seconds) per node, 1 + number of customers of them,
\* and when use_time_windows is false the pair of every node is (0, 86400).
C17_TimeWindowPerNode ==
    (probe.fn = "_create_data_model" /\ probe.applied)
      => /\ Len(probe.out.time_windows) = 1 + Len(probe.arg.customers)
         /\ \A i \in 1..Len(probe.out.time_windows) :
                /\ Len(probe.out.time_windows[i]) = 2
                /\ ~probe.arg.use_time_windows
                      => probe.out.time_windows[i] = <<0, 86400>>

\* C18: the data model has 1 + |customers| nodes, node 0 the depot and node
\* i the customer i-1: both matrices are square of that size with a zero
\* diagonal, the distance matrix is symmetric, demands and service_times
\* hold 0 for the depot and the demand and 60 times the service time of
\* customer i-1 for node i; and _create_route gives the stop of node i the
\* id and the demand of customer i-1.  (Sequences here start at 1: node i is
\* at position i + 1 of a row, customer i-1 at position i of the customers.)
C18_NodeIndexing ==
    /\ (probe.fn = "_create_data_model" /\ probe.applied)
         => LET N == 1 + Len(probe.arg.customers)
                data == probe.out
            IN /\ Len(data.distance_matrix) = N
               /\ Len(data.time_matrix) = N
               /\ Len(data.demands) = N
               /\ Len(data.service_times) = N
               /\ data.depot = 0
               /\ data.demands[1] = 0
               /\ data.service_times[1].v = 0
               /\ \A i \in 1..N :
                     /\ Len(data.distance_matrix[i]) = N
                     /\ Len(data.time_matrix[i]) = N
                     /\ data.distance_matrix[i][i] = 0
                     /\ data.time_matrix[i][i] = 0
                     /\ \A j \in 1..N :
                           data.distance_matrix[i][j] = data.distance_matrix[j][i]
               /\ \A i \in 1..(N - 1) :
                     /\ data.demands[i + 1] = probe.arg.customers[i].demand
                     /\ data.service_times[i + 1].v
                           = 60 * probe.arg.customers[i].service_time.v
                     /\ data.distance_matrix[1][i + 1]
                           = _calculate_distance(probe.arg.depot,
                                                 probe.arg.customers[i].coordinate)
    /\ (probe.fn = "_create_route" /\ probe.applied)
         => /\ ~probe.out.raised
            /\ Len(probe.out.stops) = Len(probe.arg.nodes) + 2
            /\ \A k \in 1..Len(probe.arg.nodes) :
                  LET stop == probe.out.stops[k + 1]
                      customer == probe.arg.request.customers[probe.arg.nodes[k]]
                  IN /\ stop.type = "customer"
                     /\ stop.id = customer.id
                     /\ stop.demand = customer.demand

C18_Witness ==
    /\ probe.fn = "_create_data_model"
    /\ probe.applied
    /\ Len(probe.arg.customers) = 2
    /\ probe.arg.customers[1].demand # probe.arg.customers[2].demand
    /\ probe.arg.customers[1].coordinate # probe.arg.customers[2].coordinate
    /\ probe.out.demands = <<0, probe.arg.customers[1].demand,
                             probe.arg.customers[2].demand>>
    /\ probe.out.distance_matrix[2][3] > 0

\* C19: for every zero-padded HH:MM from 00:00 to 23:59, _seconds_to_time
\* of _time_to_seconds of the string is the string.
C19_ClockRoundTrip ==
    (probe.fn = "clock" /\ probe.applied) => probe.out = probe.arg

C19_Witness ==
    /\ probe.fn = "clock"
    /\ probe.applied
    /\ probe.arg = <<"2", "3", ":", "5", "9">>
    /\ probe.out = probe.arg

GreedyApplied == probe.fn = "SimpleVRPService.solve_vrp" /\ probe.applied

GreedySolved == GreedyApplied /\ probe.out # None

\* The j-th contiguous block of k customers in input order, the last
\* vehicle's reaching to the end of the list.
Block(req, j) ==
    LET n == Len(req.customers)
        v == Len(req.vehicles)
        k == Max(1, n \div v)
    IN IF j = v THEN SubSeq(req.customers, Min((j - 1) * k, n) + 1, n)
       ELSE SubSeq(req.customers, Min((j - 1) * k, n) + 1, Min(j * k, n))

\* The routes of a solution that carry the label of the vehicle at position j.
RoutesOfVehicle(solution, j) ==
    {i \in 1..Len(solution.routes) : solution.routes[i].vehicle_id = <<"V", j>>}

StopIds(route) ==
    {CustomerStops(route)[i].id : i \in 1..Len(CustomerStops(route))}

\* C21: with n customers, v >= 1 vehicles and k = max(1, n // v), the greedy
\* route of vehicle j serves the j-th block of k customers in input order,
\* the last vehicle's block taking every customer left over; the sizes of
\* the blocks sum to n; and the scenario of 4 customers and 2 vehicles gives
\* 2 routes of 2 customers each, vehicles_used = 2 and customers_served = 4.
C21_GreedyPartition ==
    /\ GreedySolved
         => LET req == probe.arg
                v == Len(req.vehicles)
            IN /\ SumSeq([j \in 1..v |-> Len(Block(req, j))]) = Len(req.customers)
               /\ \A j \in 1..v :
                     IF Block(req, j) = <<>>
                     THEN RoutesOfVehicle(probe.out, j) = {}
                     ELSE /\ Cardinality(RoutesOfVehicle(probe.out, j)) = 1
                          /\ \A i \in RoutesOfVehicle(probe.out, j) :
                                /\ Len(CustomerStops(probe.out.routes[i]))
                                      = Len(Block(req, j))
                                /\ StopIds(probe.out.routes[i])
                                      = {Block(req, j)[m].id :
                                            m \in 1..Len(Block(req, j))}
               /\ \A i \in 1..Len(probe.out.routes) :
                     \E j \in 1..v : i \in RoutesOfVehicle(probe.out, j)
    /\ (GreedyApplied /\ probe.arg = Scenario)
         => /\ probe.out # None
            /\ Len(probe.out.routes) = 2
            /\ \A i \in 1..2 : Len(CustomerStops(probe.out.routes[i])) = 2
            /\ probe.out.vehicles_used = 2
            /\ probe.out.customers_served = 4

C21_Witness ==
    /\ GreedySolved
    /\ Len(probe.arg.customers) = 3
    /\ Len(probe.arg.vehicles) = 2
    /\ Len(probe.out.routes) = 2
    /\ Len(CustomerStops(probe.out.routes[1])) = 1
    /\ Len(CustomerStops(probe.out.routes[2])) = 2

\* The positions in a block of the customers whose id is not among the
\* first k - 1 customer stops of a route.
NotYetVisited(block, stops, k) ==
    {m \in 1..Len(block) : \A b \in 1..(k - 1) : stops[b].id # block[m].id}

\* C22: in every greedy route the k-th customer stop is, among the
\* vehicle's customers not yet visited, one at minimum distance from the
\* location of the stop before it (the depot for k = 1), and of several at
\* that distance the first in input order; every customer of the vehicle is
\* visited exactly once before the closing depot stop.
C22_NearestNeighbour ==
    GreedySolved
      => \A i \in 1..Len(probe.out.routes) :
            LET route == probe.out.routes[i]
                block == Block(probe.arg, route.vehicle_id[2])
                stops == CustomerStops(route)
                from(k) == IF k = 1 THEN probe.arg.depot ELSE stops[k - 1].coordinate
                far(k, m) == _calculate_distance(from(k), block[m].coordinate)
            IN /\ Len(stops) = Len(block)
               /\ Cardinality(StopIds(route)) = Len(block)
               /\ route.stops[Len(route.stops)].type = "depot"
               /\ \A b \in 2..(Len(route.stops) - 1) : route.stops[b].type = "customer"
               /\ \A k \in 1..Len(stops) :
                     \E m \in NotYetVisited(block, stops, k) :
                        /\ block[m].id = stops[k].id
                        /\ block[m].coordinate = stops[k].coordinate
                        /\ \A c \in NotYetVisited(block, stops, k) :
                              /\ far(k, m) <= far(k, c)
                              /\ c < m => far(k, c) > far(k, m)

\* A route of three customers, the farthest listed first and the other two
\* at one distance from the depot: of these two the one listed first is
\* visited first.
C22_Witness ==
    /\ GreedySolved
    /\ Len(probe.arg.vehicles) = 1
    /\ Len(probe.arg.customers) = 3
    /\ probe.arg.customers[1].coordinate.lat = 3004
    /\ probe.arg.customers[2].coordinate.lat = 1000
    /\ probe.arg.customers[3].coordinate.lat = 0 - 1000
    /\ CustomerStops(probe.out.routes[1])[1].id = probe.arg.customers[2].id
    /\ CustomerStops(probe.out.routes[1])[2].id = probe.arg.customers[3].id
    /\ CustomerStops(probe.out.routes[1])[3].id = probe.arg.customers[1].id

\* round(distance_km * 60 / 50), distance in metres: the nearest whole
\* number of minutes to 3 * distance / 2500.
RoundMinutes(distance) == (6 * distance + 2500) \div 5000

\* The leg by which the k-th customer stop of a route is reached.
LegTo(req, stops, k) ==
    _calculate_distance(IF k = 1 THEN req.depot ELSE stops[k - 1].coordinate,
                        stops[k].coordinate)

\* The clock on arrival at the k-th customer stop: 08:00, advanced after
\* each earlier stop by its service time and the rounded minutes of its leg.
ClockAt(req, stops, k) ==
    8 * 60 + SumSeq([m \in 1..(k - 1) |->
                        stops[m].service_time.v + RoundMinutes(LegTo(req, stops, m))])

\* C23: the clock of a greedy route starts at 08:00 and advances, after each
\* customer reached over a leg of d km, by service_time + round(d * 60/50)
\* minutes, rounding to the nearest minute; the arrival time of a customer
\* stop is the clock on arrival and its departure time arrival + service_time.
C23_GreedyClock ==
    GreedySolved
      => \A i \in 1..Len(probe.out.routes) :
            LET stops == CustomerStops(probe.out.routes[i])
            IN \A k \in 1..Len(stops) :
                  LET clock == ClockAt(probe.arg, stops, k)
                      departure == clock + stops[k].service_time.v
                  IN /\ stops[k].arrival_time = <<clock \div 60, clock % 60>>
                     /\ stops[k].departure_time = <<departure \div 60, departure % 60>>

\* C24: the constraint-programming strategy enforces the capacity
\* dimension only when use_capacity_constraints is true: called without it
\* on a request of at least one vehicle and integer service times, its
\* routing model admits an assignment, whatever the demands, and the
\* solution made from it serves every customer.
C24_CapacityOnlyWhenEnabled ==
    \A c \in CallsOf("OR-Tools") :
        (/\ ~request.use_capacity_constraints
         /\ Len(request.vehicles) >= 1
         /\ \A i \in 1..Len(request.customers) : ~request.customers[i].service_time.float)
          => \E found \in _solve_with_ortools(_create_data_model(request), request) :
                /\ found.found
                /\ VRPService_solve_vrp(request, found) # None
                /\ VRPService_solve_vrp(request, found).customers_served
                      = Len(request.customers)

\* The constraint-programming strategy applied to a request.
ORToolsApplied == probe.fn = "VRPService.solve_vrp" /\ probe.applied

\* The assignment that puts every customer node, in input order, on the
\* vehicle at position j and leaves the other vehicles empty.
SingleVehicle(req, j) ==
    [found |-> TRUE,
     routes |-> [v \in 1..Len(req.vehicles) |->
                    IF v = j THEN [i \in 1..Len(req.customers) |-> i] ELSE <<>>]]

ByNameThenId(route_data, req) ==
    LET by_name == SelectSeq(req.vehicles, LAMBDA v : v.name = route_data.vehicle_name)
        by_id == SelectSeq(req.vehicles, LAMBDA v : v.id = route_data.vehicle_id)
    IN IF by_name # <<>> THEN Head(by_name)
       ELSE IF by_id # <<>> THEN Head(by_id)
       ELSE req.vehicles[1]

\* C26: the external adapter reconciles the vehicle of a returned route by
\* name first and by id only if no vehicle of the request has the returned
\* name, and with the first vehicle when neither matches; the capacity and
\* the type of the route are those of the vehicle so chosen.
C26_VehicleByNameThenId ==
    (probe.fn = "_create_route_from_data" /\ probe.applied)
      => /\ probe.out # None
         /\ probe.out.capacity
               = ByNameThenId(probe.arg.route_data, probe.arg.request).capacity
         /\ probe.out.vehicle_type
               = ByNameThenId(probe.arg.route_data, probe.arg.request).type

\* The answers of the calls that have returned, the present one included
\* once it has.
Answers ==
    IF pc = "done"
    THEN Append(answered, [success |-> response.success, error |-> response.error])
    ELSE answered

Solved == SelectSeq(Answers, LAMBDA a : a.success)

Rejected == SelectSeq(Answers, LAMBDA a : a.error = "Input validation failed")

\* C27: over solve calls made one after the other, every call increments
\* total_requests once and at most one of successful_solves and
\* failed_solves once: total_requests = successful_solves + failed_solves +
\* the number of requests the validation rejected, successful_solves +
\* failed_solves never exceeds total_requests, and average_solving_time is
\* total_solving_time / successful_solves once successful_solves > 0.
C27_StatsAccounting ==
    /\ solving_stats.total_requests = Len(answered) + (IF pc = "idle" THEN 0 ELSE 1)
    /\ solving_stats.successful_solves = Len(Solved)
    /\ solving_stats.failed_solves = Len(Answers) - Len(Solved) - Len(Rejected)
    /\ pc \in {"idle", "done"}
          => solving_stats.total_requests
                = solving_stats.successful_solves + solving_stats.failed_solves
                     + Len(Rejected)
    /\ solving_stats.successful_solves + solving_stats.failed_solves
          <= solving_stats.total_requests
    /\ solving_stats.successful_solves > 0
          => solving_stats.average_solving_time[1] * solving_stats.successful_solves
                = solving_stats.total_solving_time
                     * solving_stats.average_solving_time[2]

\* Three calls have returned: one solved by the greedy strategy, one solved
\* by a later strategy, and one rejected by the validation.
C27_Witness ==
    /\ pc = "done"
    /\ solving_stats.total_requests = 3
    /\ solving_stats.successful_solves = 2
    /\ solving_stats.total_solving_time > 2
    /\ solving_stats.failed_solves = 0
    /\ Len(Rejected) = 1

\* C28: for every request that passes the validation, the greedy strategy
\* returns a solution, so solve calls no other strategy: every answer with
\* success true carries the algorithm 'Simple Multi-Vehicle', and no solve
\* of a validated request ends with all three strategies returning None.
C28_GreedyAlwaysSuffices ==
    Validated
      => /\ \A i \in 1..Len(invoked) :
               /\ invoked[i].strategy = "Simple"
               /\ invoked[i].returned # None
         /\ (pc = "done" /\ response.success)
               => response.data.algorithm = "Simple Multi-Vehicle"
         /\ ~(/\ Len(invoked) = 3
              /\ \A i \in 1..3 : invoked[i].returned = None)

\* C29: with at least one customer and fewer customers than vehicles, the
\* greedy strategy gives one customer to each of the first customers_count
\* vehicles; the vehicles after them, the last included, get none and have
\* no route; vehicles_used = customers_count and every customer is in
\* exactly one route.
C29_FewerCustomersThanVehicles ==
    (/\ GreedySolved
     /\ 1 <= Len(probe.arg.customers)
     /\ Len(probe.arg.customers) < Len(probe.arg.vehicles))
      => LET n == Len(probe.arg.customers)
             sol == probe.out
         IN /\ Len(sol.routes) = n
            /\ sol.vehicles_used = n
            /\ sol.customers_served = n
            /\ \A i \in 1..n :
                  /\ sol.routes[i].vehicle_id = <<"V", i>>
                  /\ sol.routes[i].vehicle_name = probe.arg.vehicles[i].name
                  /\ Len(CustomerStops(sol.routes[i])) = 1
                  /\ CustomerStops(sol.routes[i])[1].id = probe.arg.customers[i].id
            /\ \A j \in (n + 1)..Len(probe.arg.vehicles) :
                  RoutesOfVehicle(sol, j) = {}

C29_Witness ==
    /\ GreedySolved
    /\ Len(probe.arg.customers) = 1
    /\ Len(probe.arg.vehicles) = 3
    /\ Len(probe.out.routes) = 1
    /\ probe.out.routes[1].vehicle_id = <<"V", 1>>
    /\ probe.out.vehicles_used = 1

\* The customer of a request that a stop names.
CustomerOfStop(req, stop) ==
    CHOOSE c \in {req.customers[i] : i \in 1..Len(req.customers)} : c.id = stop.id

\* C30: with time windows in use, every customer stop of a solution of the
\* constraint-programming strategy reports an arrival_time inside the time
\* window of its customer.
C30_ArrivalInsideWindow ==
    (ORToolsApplied /\ probe.arg.use_time_windows /\ probe.out # None)
      => \A r \in 1..Len(probe.out.routes) :
            \A k \in 1..Len(CustomerStops(probe.out.routes[r])) :
               LET stop == CustomerStops(probe.out.routes[r])[k]
                   window == CustomerOfStop(probe.arg, stop).time_window
                   arrival == stop.arrival_time[1] * 3600 + stop.arrival_time[2] * 60
               IN window # None
                     => /\ _time_to_seconds(window.start) <= arrival
                        /\ arrival <= _time_to_seconds(window.end)

====
